---- MODULE Spec2Model ----
(***************************************************************************)
(* MiniPow (consensus/minipow/src/lib.rs): a 64-bit byte-sum proof of work *)
(* with a little-endian nonce seal, a clamped U256 target, a verifier and  *)
(* a round-windowed miner, driven by the mining worker and the import      *)
(* queue that node/src/service.rs starts.                                  *)
(*                                                                         *)
(* All integer widths are scaled down by the same rule the source uses:    *)
(* a byte has ByteBits bits, the nonce (u64) has NonceBytes bytes, the     *)
(* round counter (u32) has half the bits of the nonce, the window shift is *)
(* the width of the round counter and the window size 2^WindowBits is      *)
(* smaller than 2^shift.                                                   *)
(***************************************************************************)
EXTENDS Integers, Sequences, FiniteSets, TLC

\* ------------------------------------------------------------------ bounds
ByteBits == 2
NonceBytes == 2
WindowBits == 1
HashLen == 2
SmallTarget == 4

\* ------------------------------------------------------- widths and types
ByteBase == 2 ^ ByteBits
MaxByte == ByteBase - 1
Byte == 0 .. MaxByte

NonceBits == NonceBytes * ByteBits
U64Mod == 2 ^ NonceBits
U64Max == U64Mod - 1

RoundBits == NonceBits \div 2
U32Mod == 2 ^ RoundBits
U32Max == U32Mod - 1

ShiftBits == RoundBits
WindowSize == 2 ^ WindowBits

\* U256: wide enough to hold the analogues of 2^64 and 2^128
U256Max == 2 * (U64Mod * U64Mod) - 1

\* Option<Nonce>, with the panic outcome of a slice / copy length mismatch
NoneNonce == [tag |-> "None", n |-> 0]
SomeNonce(n) == [tag |-> "Some", n |-> n]
PanicNonce == [tag |-> "panic", n |-> 0]

\* Option<Seal>
NoneSeal == [tag |-> "None", seal |-> << >>]
SomeSeal(s) == [tag |-> "Some", seal |-> s]

\* bool result of verify, with the panic outcome
Ret(b) == [tag |-> "ret", val |-> b]
Panic == [tag |-> "panic", val |-> FALSE]
NotCalled == [tag |-> "idle", val |-> FALSE]

\* ------------------------------------------------------------- seal codec
wrapping_add(a, b, m) == (a + b) % m

to_le_bytes(n) == [i \in 1 .. NonceBytes |-> (n \div (ByteBase ^ (i - 1))) % ByteBase]

RECURSIVE from_le_bytes(_)
from_le_bytes(b) ==
    IF Len(b) = 0 THEN 0 ELSE b[1] + ByteBase * from_le_bytes(Tail(b))

to_seal_be(n) == [i \in 1 .. NonceBytes |-> to_le_bytes(n)[NonceBytes + 1 - i]]

to_seal(n) == to_le_bytes(n)

from_seal_guard_ge(seal) == Len(seal) >= NonceBytes

from_seal_guard(seal) == Len(seal) = NonceBytes

from_seal(seal) ==
    IF from_seal_guard(seal)
    THEN IF Len(seal) < NonceBytes
         THEN PanicNonce
         ELSE SomeNonce(from_le_bytes(SubSeq(seal, 1, NonceBytes)))
    ELSE NoneNonce

\* ---------------------------------------------------------- work function
RECURSIVE sum_bytes(_, _)
sum_bytes(acc, bytes) ==
    IF Len(bytes) = 0 THEN acc
    ELSE sum_bytes(wrapping_add(acc, bytes[1], U64Mod), Tail(bytes))

checksum64(pre_hash, nonce) == sum_bytes(sum_bytes(0, pre_hash), to_le_bytes(nonce))

\* ----------------------------------------------------- threshold converter
low_u64(target) == target % U64Mod

target64_wrap(target) == low_u64(target)

target64(target) == IF target > U64Max THEN U64Max ELSE low_u64(target)

\* ----------------------------------------------------------------- verify
verify_le(pre_hash, seal, target) ==
    LET d == from_seal(seal) IN
    IF d.tag = "None" THEN Ret(FALSE)
    ELSE IF d.tag = "panic" THEN Panic
    ELSE Ret(checksum64(pre_hash, d.n) <= target64(target))

verify(pre_hash, seal, target) ==
    LET d == from_seal(seal) IN
    IF d.tag = "None" THEN Ret(FALSE)
    ELSE IF d.tag = "panic" THEN Panic
    ELSE Ret(checksum64(pre_hash, d.n) < target64(target))

\* ------------------------------------------------------------------ inputs
HashBytes == {0, 1, MaxByte}
HashInputs == [1 .. HashLen -> HashBytes]

TargetInputs ==
    (0 .. SmallTarget)
        \cup {U64Max \div 2, U64Max - 1, U64Max, U64Mod, U64Mod + 1,
              U64Mod * U64Mod, U256Max}

SealBytes == {0, 1, MaxByte}
SealInputs == UNION {[1 .. k -> SealBytes] : k \in 0 .. NonceBytes + 1}

ForeignSeals == {<< >>}

\* ------------------------------------------------------------------- state
VARIABLES
    pre_hash,   \* pre-hash of the block being authored / imported
    target,     \* U256 difficulty of that block
    sround,     \* the mining worker's round counter
    pc,         \* "idle" | "searching" | "found" | "exhausted" | "panic"
    round,      \* mine: the by-value parameter `mut round`
    t,          \* mine: local t
    base,       \* mine: local base
    limit,      \* mine: local limit
    nonce,      \* mine: local nonce
    ret,        \* mine: returned Option<Seal>
    evals,      \* checksum64 evaluations made by the running call
    scanned,    \* per round, the nonces mine evaluated for this block
    results,    \* per round, the value the last finished call returned
    prev,       \* results[sround] as it was before the call that just finished
    vseal,      \* verify: the seal argument
    vret,       \* verify: the returned bool, until the worker's next call of mine
    cn,         \* codec: the nonce handed to to_seal (-1: none yet)
    cseal,      \* codec: the encoded seal
    cdec        \* codec: the result of from_seal

vars == <<pre_hash, target, sround, pc, round, t, base, limit, nonce, ret,
          evals, scanned, results, prev, vseal, vret, cn, cseal, cdec>>

mineLocals == <<round, t, base, limit, nonce, ret, evals>>
history == <<scanned, results, prev>>
verifyVars == <<vseal, vret>>
codecVars == <<cn, cseal, cdec>>

IdleNonce == [tag |-> "idle", n |-> 0]

Init ==
    /\ pre_hash \in HashInputs
    /\ target \in TargetInputs
    /\ sround = 0
    /\ pc = "idle"
    /\ round = 0 /\ t = 0 /\ base = 0 /\ limit = 0 /\ nonce = 0
    /\ ret = NoneSeal
    /\ evals = 0
    /\ scanned = [r \in 0 .. U32Max |-> {}]
    /\ results = [r \in 0 .. U32Max |-> << >>]
    /\ prev = << >>
    /\ vseal = << >>
    /\ vret = NotCalled
    /\ cn = -1
    /\ cseal = << >>
    /\ cdec = IdleNonce

\* ------------------------------------------------------------------- mine
mine_base_noshift(r) == r

mine_base(r) == (r * (2 ^ ShiftBits)) % U64Mod

mine_limit_double(b) == b + 2 * WindowSize

mine_limit(b) == b + WindowSize

mine_first_skip(b) == wrapping_add(b, 1, U64Mod)

mine_first(b) == b

mine_test_le(h, n, thr) == checksum64(h, n) <= thr

mine_test_gt(h, n, thr) == checksum64(h, n) > thr

mine_test(h, n, thr) == checksum64(h, n) < thr

caller_round_by_ref(sr, r) == r

caller_round(sr, r) == sr

\* entry of mine: lines 87-90.  An overflowing `base + (1 << 20)` panics in
\* a build with overflow checks and wraps in one without.
MineCall ==
    /\ pc = "idle"
    /\ round' = sround
    /\ t' = target64(target)
    /\ base' = mine_base(sround)
    /\ limit' = mine_limit(base') % U64Mod
    /\ nonce' = mine_first(base')
    /\ ret' = NoneSeal
    /\ evals' = 0
    /\ pc' \in (IF mine_limit(base') > U64Max THEN {"panic", "searching"} ELSE {"searching"})
    /\ UNCHANGED <<pre_hash, target, sround, history, verifyVars, codecVars>>

\* one pass through the loop body: lines 91-96
MineIter ==
    /\ pc = "searching"
    /\ nonce < limit
    /\ evals' = evals + 1
    /\ scanned' = [scanned EXCEPT ![sround] = @ \cup {nonce}]
    /\ IF mine_test(pre_hash, nonce, t)
       THEN /\ ret' = SomeSeal(to_seal(nonce))
            /\ pc' = "found"
            /\ prev' = results[sround]
            /\ results' = [results EXCEPT ![sround] = <<ret'>>]
            /\ UNCHANGED nonce
       ELSE /\ nonce' = wrapping_add(nonce, 1, U64Mod)
            /\ UNCHANGED <<ret, pc, prev, results>>
    /\ UNCHANGED <<pre_hash, target, sround, round, t, base, limit, verifyVars, codecVars>>

\* loop exit without a solution: lines 97-99
MineExhaust ==
    /\ pc = "searching"
    /\ ~(nonce < limit)
    /\ round' = wrapping_add(round, 1, U32Mod)
    /\ ret' = NoneSeal
    /\ pc' = "exhausted"
    /\ sround' = caller_round(sround, round')
    /\ prev' = results[sround]
    /\ results' = [results EXCEPT ![sround] = <<ret'>>]
    /\ UNCHANGED <<pre_hash, target, t, base, limit, nonce, evals, scanned, verifyVars, codecVars>>

\* ------------------------------------------------------------ mining worker
SchedRetry ==
    /\ pc = "exhausted"
    /\ sround < U32Max
    /\ sround' = sround + 1
    /\ pc' = "idle"
    /\ vseal' = << >>
    /\ vret' = NotCalled
    /\ UNCHANGED <<pre_hash, target, mineLocals, history, codecVars>>

\* the worker goes on to the next round although a seal was returned
\* (the seal was not used); mine is then entered at a round above 0 whose
\* window holds a passing nonce
SchedResume ==
    /\ pc = "found"
    /\ sround < U32Max
    /\ sround' = sround + 1
    /\ pc' = "idle"
    /\ vseal' = << >>
    /\ vret' = NotCalled
    /\ UNCHANGED <<pre_hash, target, mineLocals, history, codecVars>>

SchedRepeat ==
    /\ pc \in {"found", "exhausted"}
    /\ pc' = "idle"
    /\ vseal' = << >>
    /\ vret' = NotCalled
    /\ UNCHANGED <<pre_hash, target, sround, mineLocals, history, codecVars>>

\* a new block: a new pre-hash, the same difficulty (MiniPow::difficulty is
\* a constant), round back at 0
SchedNewBlock ==
    /\ pc \in {"found", "exhausted"}
    /\ pre_hash' \in HashInputs
    /\ UNCHANGED target
    /\ sround' = 0
    /\ pc' = "idle"
    /\ round' = 0 /\ t' = 0 /\ base' = 0 /\ limit' = 0 /\ nonce' = 0
    /\ ret' = NoneSeal
    /\ evals' = 0
    /\ scanned' = [r \in 0 .. U32Max |-> {}]
    /\ results' = [r \in 0 .. U32Max |-> << >>]
    /\ prev' = << >>
    /\ vseal' = << >>
    /\ vret' = NotCalled
    /\ UNCHANGED codecVars

\* ------------------------------------------------------------ import queue
Verify(s) ==
    /\ vseal' = s
    /\ vret' = verify(pre_hash, s, target)
    /\ UNCHANGED <<pre_hash, target, sround, pc, mineLocals, history, codecVars>>

ImportMined ==
    /\ pc = "found"
    /\ Verify(ret.seal)

ImportForeign == \E s \in ForeignSeals : Verify(s)

\* one verify call per received block, on whatever bytes the header carries
ImportAny ==
    /\ vret = NotCalled
    /\ \E s \in SealInputs : Verify(s)

\* -------------------------------------------------------------- seal codec
Encode ==
    /\ cn = -1
    /\ cseal = << >>
    /\ \E n \in 0 .. U64Max :
        /\ cn' = n
        /\ cseal' = to_seal(n)
    /\ cdec' = IdleNonce
    /\ UNCHANGED <<pre_hash, target, sround, pc, mineLocals, history, verifyVars>>

\* bytes taken from a received header instead of a local to_seal
Receive ==
    /\ cn = -1
    /\ cseal = << >>
    /\ cseal' \in SealInputs \ {<< >>}
    /\ UNCHANGED <<pre_hash, target, sround, pc, mineLocals, history, verifyVars, cn, cdec>>

Decode ==
    /\ cseal # << >>
    /\ cdec = IdleNonce
    /\ cdec' = from_seal(cseal)
    /\ UNCHANGED <<pre_hash, target, sround, pc, mineLocals, history, verifyVars, cn, cseal>>

\* ---------------------------------------------------------- specifications
Next ==
    \/ MineCall
    \/ MineIter
    \/ MineExhaust
    \/ SchedRetry
    \/ SchedResume
    \/ SchedRepeat
    \/ SchedNewBlock
    \/ ImportMined
    \/ ImportForeign

Spec == Init /\ [][Next]_vars

LiveSpec == Spec /\ WF_vars(MineIter) /\ WF_vars(MineExhaust)

VerifySpec == Init /\ [][ImportAny]_vars

CodecNext == Encode \/ Receive \/ Decode

CodecInit == Init /\ pre_hash = [i \in 1 .. HashLen |-> 0] /\ target = 0

CodecSpec == CodecInit /\ [][CodecNext]_vars

\* ------------------------------------------------------------------ claims

\* C1: whenever mine(h, target, round) has returned Some(seal),
\* verify(h, seal, target) returns true, also when the import queue runs it.
C1_MineVerifyConsistent ==
    /\ pc = "found" => (ret.tag = "Some" /\ verify(pre_hash, ret.seal, target) = Ret(TRUE))
    /\ (pc = "found" /\ vret # NotCalled /\ vseal = ret.seal) => vret = Ret(TRUE)

C1_Witness == pc = "found" /\ vseal = ret.seal /\ vret = Ret(TRUE)

\* C2: verify returns true exactly when the seal is the encoding of a nonce n
\* with checksum(pre_hash, n) strictly below the threshold; a work value equal
\* to the threshold is rejected.
C2_VerifyExact ==
    vret # NotCalled =>
        LET decodes == Len(vseal) = NonceBytes
            n == from_le_bytes(vseal)
        IN  /\ vret = Ret(decodes /\ to_seal(n) = vseal
                              /\ checksum64(pre_hash, n) < target64(target))
            /\ (decodes /\ checksum64(pre_hash, n) = target64(target)) => vret = Ret(FALSE)

C2_Witness ==
    /\ vret = Ret(FALSE)
    /\ Len(vseal) = NonceBytes
    /\ checksum64(pre_hash, from_le_bytes(vseal)) = target64(target)
    /\ target64(target) > 0

\* C3: a seal whose length is not the encoding length decodes to none and is
\* rejected by verify with an ordinary false, never a panic.
C3_MalformedRejected ==
    (vret # NotCalled /\ Len(vseal) # NonceBytes) =>
        /\ from_seal(vseal) = NoneNonce
        /\ vret = Ret(FALSE)

C3_Witness ==
    /\ Len(vseal) = NonceBytes + 1
    /\ vret = Ret(FALSE)
    /\ checksum64(pre_hash, from_le_bytes(SubSeq(vseal, 1, NonceBytes))) < target64(target)

\* C4 (as stated): the nonces scanned for rounds r and r+1 never intersect and
\* together form a contiguous range without gaps.
C4_Original ==
    \A r \in 0 .. U32Max - 1 :
        /\ scanned[r] \cap scanned[r + 1] = {}
        /\ (scanned[r] # {} /\ scanned[r + 1] # {}) =>
              \A a \in scanned[r] : \A b \in scanned[r + 1] :
                  \A n \in a .. b : n \in scanned[r] \cup scanned[r + 1]

\* C4 (amended): the nonces scanned for rounds r and r+1 never intersect, the
\* window of r lies below that of r+1, and the 2^32 - 2^20 nonces between the
\* end of window r and the start of window r+1 are scanned by no round.
C4_WindowsDisjoint ==
    \A r \in 0 .. U32Max - 1 :
        /\ scanned[r] \cap scanned[r + 1] = {}
        /\ \A a \in scanned[r] : \A b \in scanned[r + 1] : a < b
        /\ scanned[r] \subseteq (r * 2 ^ ShiftBits) .. (r * 2 ^ ShiftBits + WindowSize - 1)
        /\ (results[r] = <<NoneSeal>> /\ scanned[r + 1] # {}) =>
              LET gap == (r * 2 ^ ShiftBits + WindowSize) .. ((r + 1) * 2 ^ ShiftBits - 1) IN
              /\ Cardinality(gap) = 2 ^ ShiftBits - WindowSize
              /\ Cardinality(gap) > 0
              /\ \A q \in 0 .. U32Max : scanned[q] \cap gap = {}

C4_Witness ==
    /\ results[0] = <<NoneSeal>>
    /\ results[1] = <<NoneSeal>>
    /\ Cardinality(scanned[0]) = WindowSize
    /\ Cardinality(scanned[1]) = WindowSize

\* C5: decoding the encoding of any representable nonce gives that nonce
\* back, for 0 and for the maximum value too.
C5_CodecRoundTrip ==
    (cn >= 0 /\ cdec # IdleNonce) => cdec = SomeNonce(cn)

C5_Witness == cn = U64Max /\ cdec = SomeNonce(U64Max)

\* C6: the threshold mine computes is the difficulty itself when it fits the
\* 64-bit domain and the 64-bit maximum otherwise (saturation, no wraparound).
C6_ThresholdClamp ==
    pc # "idle" =>
        /\ target <= U64Max => t = target
        /\ target > U64Max => t = U64Max

C6_Witness == pc # "idle" /\ target = U64Mod + 1 /\ t = U64Max

\* C7: with the maximum threshold the call for round 0 returns Found after
\* its first evaluation, no call ever returns Exhausted, and every call the
\* worker starts reaches Found.
C7_NeverExhausted ==
    target = U64Max =>
        /\ pc \notin {"exhausted", "panic"}
        /\ \A r \in 0 .. U32Max : results[r] # <<NoneSeal>>
        /\ (pc = "found" /\ sround = 0) => (evals = 1 /\ ret = SomeSeal(to_seal(0)))

C7_ScenarioC ==
    /\ []C7_NeverExhausted
    /\ ((target = U64Max /\ pc = "searching") ~> (target = U64Max /\ pc = "found"))

C7_Witness ==
    /\ target = U64Max
    /\ pc = "found"
    /\ sround = 0
    /\ pre_hash = [i \in 1 .. HashLen |-> MaxByte]
    /\ results[0] = <<SomeSeal(to_seal(0))>>

\* C8: a mine call repeated with the same arguments returns what it returned
\* before, and no step of mine changes the worker's round counter.
C8_Idempotent ==
    (pc \in {"found", "exhausted"} /\ prev # << >>) => prev = <<ret>>

C8_RoundOwnedByWorker ==
    [][(pc = "searching" \/ pc' = "searching") => sround' = sround]_vars

C8_Stateless == []C8_Idempotent /\ C8_RoundOwnedByWorker

C8_Witness == pc = "exhausted" /\ prev = <<NoneSeal>> /\ sround = 1 /\ round = 2 /\ vret # NotCalled

\* C9: a returned seal encodes the smallest passing nonce of the window
\* [round << 32, (round << 32) + 2^20), none is returned exactly when the
\* window holds no passing nonce, and for the all-zero pre-hash at round 0
\* the result is the seal of the first passing nonce of a direct scan from 0
\* when that nonce lies in the window.
C9_FirstInWindow ==
    LET lo == sround * 2 ^ ShiftBits
        window == lo .. (lo + WindowSize - 1)
        thr == IF target > U64Max THEN U64Max ELSE target
        passes(n) == checksum64(pre_hash, n) < thr
    IN  /\ pc = "found" =>
            /\ ret.tag = "Some"
            /\ \E n \in window :
                  /\ passes(n)
                  /\ ret.seal = to_le_bytes(n)
                  /\ \A m \in window : m < n => ~passes(m)
        /\ pc = "exhausted" => (ret = NoneSeal /\ \A n \in window : ~passes(n))
        /\ (pc \in {"found", "exhausted"} /\ sround = 0
              /\ pre_hash = [i \in 1 .. HashLen |-> 0]) =>
            LET passing == {n \in 0 .. U64Max : passes(n)} IN
            IF passing # {} /\ (CHOOSE n \in passing : \A m \in passing : n <= m) < WindowSize
            THEN ret = SomeSeal(to_seal(CHOOSE n \in passing : \A m \in passing : n <= m))
            ELSE ret = NoneSeal

C9_Witness ==
    /\ pc = "found"
    /\ sround = U32Max
    /\ from_le_bytes(ret.seal) = U32Max * 2 ^ ShiftBits
    /\ results[0] = <<SomeSeal(to_seal(0))>>
    /\ pre_hash = [i \in 1 .. HashLen |-> 0]

\* C10: every mine call ends after at most 2^20 evaluations, for the largest
\* round too: the window's upper bound does not overflow and the loop does
\* not leave the window.
C10_Bounded ==
    /\ evals <= WindowSize
    /\ pc # "panic"
    /\ pc \in {"searching", "found", "exhausted"} =>
          /\ base = sround * 2 ^ ShiftBits
          /\ limit = base + WindowSize
          /\ limit <= U64Max
          /\ base <= nonce /\ nonce <= limit

C10_Terminates == []C10_Bounded /\ (pc = "searching" ~> pc \in {"found", "exhausted"})

C10_Witness == pc = "exhausted" /\ sround = U32Max /\ evals = WindowSize /\ nonce = limit

====
